---- MODULE Spec2Model ----
(***************************************************************************)
(* Local Food Wastage Management System: the data layer of                 *)
(* streamlit_app.py (fetch_df, get_distinct_values, run_write,             *)
(* tables_present with their st.cache_data memoization) and the script     *)
(* that calls it (schema gate, sidebar, the four pages).                   *)
(*                                                                         *)
(* A text value is a sequence of one-character strings, so that SQL        *)
(* LOWER and TRIM are computed character by character.  A DataFrame is a   *)
(* record [columns, rows]; rows is a set (row order is not modelled).      *)
(***************************************************************************)
EXTENDS Integers, Sequences, FiniteSets, TLC

\* ------------------------------------------------------------------ bounds
\* Row ids and the numeric inputs of the forms range over 1..MaxId.
MaxId == 2
\* Number of successful writes followed in one behaviour.
MaxWrites == 1
\* Number of Browse & Filter page views followed in one behaviour.
MaxBrowses == 2

\* --------------------------------------------------------- program constants
TTL == 60
REQUIRED_TABLES == {"providers", "receivers", "food_listings", "claims"}
id_col == [providers |-> "provider_id", receivers |-> "receiver_id",
           food_listings |-> "food_id", claims |-> "claim_id"]

\* The sentinel of the three sidebar select boxes.
All == <<"A", "l", "l">>
\* SQL NULL / Python None (never a text: its element is not one character).
NULL == <<"NULL">>

\* ------------------------------------------------------------------- texts
\* Free-text inputs typed into the forms.
TextInputs == {<<"a">>, <<" ", "A">>}
\* Free-text "Column to update" inputs: a known column, a column known only
\* to some tables, a name no table has, and the empty input.
ColumnInputs == {"city", "contact", "bogus", ""}

Code == [c \in {" ", "A", "B", "a", "b", "l"} |->
           CASE c = " " -> 32 [] c = "A" -> 65 [] c = "B" -> 66
             [] c = "a" -> 97 [] c = "b" -> 98 [] c = "l" -> 108]

LowerChar(c) == CASE c = "A" -> "a" [] c = "B" -> "b" [] OTHER -> c

\* SQL LOWER(x): NULL stays NULL.
SqlLower(x) == IF x = NULL THEN NULL ELSE [i \in 1..Len(x) |-> LowerChar(x[i])]

RECURSIVE LTrim(_)
LTrim(x) == IF x # <<>> /\ Head(x) = " " THEN LTrim(Tail(x)) ELSE x

RECURSIVE RTrim(_)
RTrim(x) == IF x # <<>> /\ x[Len(x)] = " " THEN RTrim(SubSeq(x, 1, Len(x) - 1)) ELSE x

\* SQL TRIM(x): spaces removed at both ends; NULL stays NULL.
SqlTrim(x) == IF x = NULL THEN NULL ELSE LTrim(RTrim(x))

\* The predicate LOWER(TRIM(column)) = LOWER(TRIM(:param)); a comparison with
\* NULL is not true.
SqlEqNorm(colval, parval) ==
    /\ colval # NULL
    /\ parval # NULL
    /\ SqlLower(SqlTrim(colval)) = SqlLower(SqlTrim(parval))

\* Binary collation: x sorts strictly before y.
RECURSIVE TextLess(_, _)
TextLess(x, y) ==
    IF y = <<>> THEN FALSE
    ELSE IF x = <<>> THEN TRUE
    ELSE IF Code[Head(x)] # Code[Head(y)] THEN Code[Head(x)] < Code[Head(y)]
    ELSE TextLess(Tail(x), Tail(y))

\* ORDER BY 1 over a set of distinct texts.
RECURSIVE OrderBy(_)
OrderBy(S) ==
    IF S = {} THEN <<>>
    ELSE LET m == CHOOSE x \in S : \A y \in S \ {x} : TextLess(x, y)
         IN <<m>> \o OrderBy(S \ {m})

Range(s) == {s[i] : i \in DOMAIN s}

VARIABLES
    tables,         \* store: the tables that exist
    receiversCol,   \* store: the receivers table's type-or-category column
    rows,           \* store: rows[t] is the set of rows of table t
    up,             \* store: TRUE while the store answers statements
    fetchCache,     \* st.cache_data of fetch_df: (query, params) -> entry
    gdvCache,       \* st.cache_data of get_distinct_values: (table, column) -> entry
    tpCache,        \* st.cache_data of tables_present: () -> entry
    pc,             \* position of the script run
    section,        \* CRUD page: the selected table
    sidebar,        \* locations, providers_list, food_types of this run
    choice,         \* loc_choice, prov_choice, type_choice of this run
    call,           \* the data-layer call made by the last step
    ret,            \* what that call returned
    sent,           \* statements handed to the engine by the last step
    msgs,           \* st.error / st.success / st.warning shown by the last step
    warned,         \* the tables the gate's warning names
    writes,         \* successful writes so far
    browses         \* Browse & Filter page views so far

store == <<tables, receiversCol, rows, up>>
caches == <<fetchCache, gdvCache, tpCache>>
vars == <<tables, receiversCol, rows, up, fetchCache, gdvCache, tpCache, pc,
          section, sidebar, choice, call, ret, sent, msgs, warned, writes,
          browses>>

\* ------------------------------------------------------------------ schema
\* The columns the statements of the script name, per table.  The receivers
\* table has one type-or-category column, named by receiversCol.
Columns(t) ==
    CASE t = "providers" ->
           {"provider_id", "name", "type", "address", "city", "contact"}
      [] t = "receivers" ->
           {"receiver_id", "name", receiversCol, "address", "city", "contact"}
      [] t = "food_listings" ->
           {"food_id", "provider_id", "food_name", "food_type", "meal_type",
            "quantity", "expiry_date", "location"}
      [] t = "claims" ->
           {"claim_id", "food_id", "receiver_id", "status", "timestamp"}

\* The columns whose values the model keeps in a row.
Fields(t) ==
    CASE t = "providers" -> {"provider_id", "name", "city"}
      [] t = "receivers" -> {"receiver_id", "city"}
      [] t = "food_listings" -> {"food_id", "provider_id", "location", "food_type"}
      [] t = "claims" -> {"claim_id", "food_id"}

Ids == 1..MaxId

\* -------------------------------------------------------------- statements
\* A read statement is its text, kept as the parts the script assembles it
\* from: what it selects, and the WHERE predicates appended to it in order.
Query(kind, table, column, where) ==
    [kind |-> kind, table |-> table, column |-> column, where |-> where]

\* One appended predicate " AND LOWER(TRIM(col)) = LOWER(TRIM(:param))".
Pred(col, param) == [col |-> col, param |-> param]

NoParams == <<>>

TablesQ == Query("tables", "sqlite_master", "name", <<>>)
DistinctQ(table, column) == Query("distinct", table, column, <<>>)
PreviewQ(table) == Query("preview", table, "*", <<>>)
BrowseQ(where) == Query("browse", "food_listings", "", where)
ContactQ(table, where) == Query("contact", table, "", where)
ReportQ(name) ==
    Query("report", "providers", name,
          IF name = "Q4" THEN <<Pred("city", "city_name")>> ELSE <<>>)

\* The reports of the catalogue the model follows.
ReportChoices == {"Q1", "Q4"}

\* The select list of a statement, per table it reads.
SelectList(q) ==
    CASE q.kind = "tables" -> {}
      [] q.kind = "distinct" -> {<<q.table, q.column>>}
      [] q.kind = "preview" -> {}
      [] q.kind = "browse" ->
           {<<"food_listings", c>> : c \in {"food_id", "food_name", "food_type",
                "quantity", "expiry_date", "location", "provider_id"}}
           \cup {<<"providers", c>> : c \in {"provider_id", "name", "contact"}}
      [] q.kind = "contact" /\ q.table = "providers" ->
           {<<"providers", c>> : c \in {"provider_id", "name", "type", "city",
                "contact", "address"}}
      [] q.kind = "contact" /\ q.table = "receivers" ->
           {<<"receivers", c>> : c \in {"receiver_id", "name", "type", "city",
                "contact"}}
      [] q.kind = "report" /\ q.column = "Q1" -> {<<"providers", "city">>}
      [] q.kind = "report" /\ q.column = "Q4" ->
           {<<"providers", c>> : c \in {"name", "contact", "address", "city"}}

\* The tables a statement reads.
FromTables(q) ==
    CASE q.kind = "tables" -> {}
      [] q.kind = "browse" -> {"food_listings", "providers"}
      [] OTHER -> {q.table}

\* The store executes a read statement iff it answers, and every table and
\* column the statement names exists.
CanRead(q) ==
    /\ up
    /\ FromTables(q) \subseteq tables
    /\ \A tc \in SelectList(q) : tc[2] \in Columns(tc[1])

\* The column names of the result of a statement.
ResultColumns(q) ==
    CASE q.kind = "tables" -> {"name"}
      [] q.kind = "distinct" -> {"val"}
      [] q.kind = "preview" -> Columns(q.table)
      [] q.kind = "browse" ->
           {"food_id", "food_name", "food_type", "quantity", "expiry_date",
            "location", "provider_name", "provider_contact"}
      [] q.kind = "contact" -> {tc[2] : tc \in SelectList(q)}
      [] q.kind = "report" /\ q.column = "Q1" -> {"city", "num_providers"}
      [] q.kind = "report" /\ q.column = "Q4" -> {"name", "contact", "address"}

\* food_listings f LEFT JOIN providers p ON f.provider_id = p.provider_id.
JoinedListings ==
    UNION {
      LET ps == {p \in rows["providers"] : p.provider_id = f.provider_id}
      IN IF ps = {}
         THEN {[food_id |-> f.food_id, food_type |-> f.food_type,
                location |-> f.location, provider_name |-> NULL]}
         ELSE {[food_id |-> f.food_id, food_type |-> f.food_type,
                location |-> f.location, provider_name |-> p.name] : p \in ps}
      : f \in rows["food_listings"]}

\* The value a predicate's column has in a row.
ColumnValue(r, col) ==
    CASE col = "f.location" -> r.location
      [] col = "p.name" -> r.provider_name
      [] col = "f.food_type" -> r.food_type
      [] col = "city" -> r.city

\* The rows that satisfy every appended predicate under the bound parameters.
Where(R, q, params) ==
    {r \in R : \A i \in DOMAIN q.where :
        SqlEqNorm(ColumnValue(r, q.where[i].col), params[q.where[i].param])}

\* A DataFrame.
DataFrame(columns, rs) == [columns |-> columns, rows |-> rs]

\* pd.DataFrame(): no columns, no rows.
EmptyDataFrame == DataFrame({}, {})

\* pd.read_sql_query(text(query), engine, params) on a statement the store
\* executes.
read_sql_query(q, params) ==
    DataFrame(ResultColumns(q),
      CASE q.kind = "tables" -> {[name |-> t] : t \in tables}
        [] q.kind = "distinct" ->
             {[val |-> r[q.column]] : r \in {x \in rows[q.table] : x[q.column] # NULL}}
        [] q.kind = "preview" -> rows[q.table]
        [] q.kind = "browse" -> Where(JoinedListings, q, params)
        [] q.kind = "contact" -> Where(rows[q.table], q, params)
        [] q.kind = "report" /\ q.column = "Q1" ->
             {[city |-> c,
               num_providers |-> Cardinality({p \in rows["providers"] : p.city = c})]
              : c \in {p.city : p \in rows["providers"]}}
        [] q.kind = "report" /\ q.column = "Q4" ->
             {[name |-> p.name] : p \in Where(rows["providers"], q, params)})

\* A write statement: INSERT, UPDATE or DELETE on one table, with the columns
\* its text names; set is the column an UPDATE assigns.
Write(kind, table, columns, set) ==
    [kind |-> kind, table |-> table, columns |-> columns, set |-> set]

InsertColumns(t) ==
    CASE t = "providers" -> {"name", "type", "address", "city", "contact"}
      [] t = "receivers" -> {"name", "category", "address", "city", "contact"}
      [] t = "food_listings" ->
           {"provider_id", "food_name", "food_type", "quantity", "expiry_date",
            "location"}
      [] t = "claims" -> {"food_id", "receiver_id", "status", "timestamp"}

InsertQ(t) == Write("insert", t, InsertColumns(t), "")
UpdateQ(t, col) == Write("update", t, {col, id_col[t]}, col)
DeleteQ(t) == Write("delete", t, {id_col[t]}, "")

\* The store executes a write statement iff it answers, and the table and
\* every column the statement names exist.
CanWrite(q) ==
    /\ up
    /\ q.table \in tables
    /\ q.columns \subseteq Columns(q.table)

\* The id the store gives an inserted row: one past the largest.
NextId(t) ==
    LET ids == {r[id_col[t]] : r \in rows[t]}
    IN IF ids = {} THEN 1 ELSE (CHOOSE i \in ids : \A j \in ids : j <= i) + 1

\* The rows of the written table after the statement commits.
conn_execute(q, params) ==
    CASE q.kind = "insert" ->
           rows[q.table] \cup {(id_col[q.table] :> NextId(q.table)) @@ params}
      [] q.kind = "update" ->
           IF q.set \in Fields(q.table)
           THEN {IF r[id_col[q.table]] = params.id
                 THEN [r EXCEPT ![q.set] = params.val] ELSE r : r \in rows[q.table]}
           ELSE rows[q.table]
      [] q.kind = "delete" ->
           {r \in rows[q.table] : r[id_col[q.table]] # params.id}

\* --------------------------------------------------------------- data layer
\* The data layer's state while a step runs: the three caches, the statements
\* handed to the engine and the messages shown so far in the step.
Layer == [fc |-> fetchCache, gc |-> gdvCache, tc |-> tpCache,
          sent |-> <<>>, msgs |-> <<>>]

\* A memoized return value: its age in seconds, and for fetch_df whether the
\* call reported an SQL error (st.error is replayed on a cache hit).
Entry(val, err) == [age |-> 0, val |-> val, err |-> err]

\* @st.cache_data(ttl=60): the entry of key is served while it is held.
Cached(cache, key) == key \in DOMAIN cache

Memoize(cache, key, entry) == (key :> entry) @@ cache

\* Variant of Expire that keeps an entry until it is older than the TTL.
Expire_inclusive(cache, d) ==
    LET live == {k \in DOMAIN cache : cache[k].age + d <= TTL}
    IN [k \in live |-> [cache[k] EXCEPT !.age = @ + d]]

\* Time passes: every entry ages by d, and an entry that reaches the TTL is
\* dropped.
Expire(cache, d) ==
    LET live == {k \in DOMAIN cache : cache[k].age + d < TTL}
    IN [k \in live |-> [cache[k] EXCEPT !.age = @ + d]]

\* cache.clear()
Clear(cache) == <<>>

\* Variant of fetch_df that memoizes only the result of a statement the
\* store executed.
fetch_df_forgets_failures(L, query, params) ==
    LET key == <<query, params>>
    IN IF key \in DOMAIN L.fc
       THEN [L |-> [L EXCEPT !.msgs = IF L.fc[key].err
                                       THEN Append(@, "SQL error") ELSE @],
             ret |-> L.fc[key].val, raised |-> FALSE]
       ELSE IF CanRead(query)
       THEN LET df == read_sql_query(query, params)
            IN [L |-> [L EXCEPT !.fc = (key :> [age |-> 0, val |-> df, err |-> FALSE]) @@ @,
                                 !.sent = Append(@, query)],
                ret |-> df, raised |-> FALSE]
       ELSE [L |-> [L EXCEPT !.sent = Append(@, query),
                             !.msgs = Append(@, "SQL error")],
             ret |-> [columns |-> {}, rows |-> {}], raised |-> FALSE]

\* Variant of run_write that clears the fetch_df cache only.
run_write_keeps_lists(L, query, params) ==
    IF CanWrite(query)
    THEN [L |-> [L EXCEPT !.sent = Append(@, query),
                          !.msgs = Append(@, "Operation successful."),
                          !.fc = <<>>],
          rows |-> conn_execute(query, params), ok |-> TRUE]
    ELSE [L |-> [L EXCEPT !.sent = Append(@, query),
                          !.msgs = Append(@, "Write error")],
          rows |-> rows[query.table], ok |-> FALSE]

\* Variant of run_write that clears both caches whether or not the statement
\* committed.
run_write_clears_on_failure(L, query, params) ==
    IF CanWrite(query)
    THEN [L |-> [L EXCEPT !.sent = Append(@, query),
                          !.msgs = Append(@, "Operation successful."),
                          !.fc = <<>>, !.gc = <<>>],
          rows |-> conn_execute(query, params), ok |-> TRUE]
    ELSE [L |-> [L EXCEPT !.sent = Append(@, query),
                          !.msgs = Append(@, "Write error"),
                          !.fc = <<>>, !.gc = <<>>],
          rows |-> rows[query.table], ok |-> FALSE]

\* fetch_df(query, params): the memoized DataFrame, or the statement's result;
\* a failing statement reports "SQL error" and returns (and memoizes) the
\* empty DataFrame.
fetch_df(L, query, params) ==
    LET key == <<query, params>>
    IN IF Cached(L.fc, key)
       THEN [L |-> [L EXCEPT !.msgs = IF L.fc[key].err
                                       THEN Append(@, "SQL error") ELSE @],
             ret |-> L.fc[key].val, raised |-> FALSE]
       ELSE LET ok == CanRead(query)
                df == IF ok THEN read_sql_query(query, params) ELSE EmptyDataFrame
            IN [L |-> [L EXCEPT !.fc = Memoize(@, key, Entry(df, ~ok)),
                                 !.sent = Append(@, query),
                                 !.msgs = IF ok THEN @ ELSE Append(@, "SQL error")],
                ret |-> df, raised |-> FALSE]

\* get_distinct_values(table, column): df["val"] raises KeyError on a
\* DataFrame without that column, and a call that raises is not memoized.
get_distinct_values(L, table, column) ==
    LET key == <<table, column>>
    IN IF Cached(L.gc, key)
       THEN [L |-> L, ret |-> L.gc[key].val, raised |-> FALSE]
       ELSE LET r == fetch_df(L, DistinctQ(table, column), NoParams)
            IN IF "val" \notin r.ret.columns
               THEN [L |-> r.L, ret |-> <<>>, raised |-> TRUE]
               ELSE LET vals == OrderBy({x.val : x \in r.ret.rows})
                    IN [L |-> [r.L EXCEPT !.gc = Memoize(@, key, Entry(vals, FALSE))],
                        ret |-> vals, raised |-> FALSE]

\* tables_present(): df["name"] raises KeyError on a DataFrame without that
\* column, and a call that raises is not memoized.
tables_present(L) ==
    LET key == <<>>
    IN IF Cached(L.tc, key)
       THEN [L |-> L, ret |-> L.tc[key].val, raised |-> FALSE]
       ELSE LET r == fetch_df(L, TablesQ, NoParams)
            IN IF "name" \notin r.ret.columns
               THEN [L |-> r.L, ret |-> {}, raised |-> TRUE]
               ELSE LET names == {x.name : x \in r.ret.rows}
                    IN [L |-> [r.L EXCEPT !.tc = Memoize(@, key, Entry(names, FALSE))],
                        ret |-> names, raised |-> FALSE]

\* run_write(query, params): the statement runs in one transaction; on commit
\* the success message is shown and the fetch_df and get_distinct_values
\* caches are cleared, on failure the transaction is rolled back and the
\* error is shown.  rows is the rows of the written table afterwards.
run_write(L, query, params) ==
    IF CanWrite(query)
    THEN [L |-> [L EXCEPT !.sent = Append(@, query),
                          !.msgs = Append(@, "Operation successful."),
                          !.fc = Clear(@), !.gc = Clear(@)],
          rows |-> conn_execute(query, params), ok |-> TRUE]
    ELSE [L |-> [L EXCEPT !.sent = Append(@, query),
                          !.msgs = Append(@, "Write error")],
          rows |-> rows[query.table], ok |-> FALSE]

\* ------------------------------------------------------------------ script
NoCall == [fn |-> "none", query |-> <<>>, params |-> <<>>, raised |-> FALSE]
Call(fn, query, params, raised) ==
    [fn |-> fn, query |-> query, params |-> params, raised |-> raised]

NoSidebar == [locations |-> <<>>, providers_list |-> <<>>, food_types |-> <<>>]

\* The data layer's state at the end of a step becomes the program's.
Commit(L) ==
    /\ fetchCache' = L.fc
    /\ gdvCache' = L.gc
    /\ tpCache' = L.tc
    /\ sent' = L.sent
    /\ msgs' = L.msgs

\* Lines 51-55: the schema gate that opens every script run.  The warning
\* names the missing tables and st.stop() ends the run; an exception raised
\* by tables_present() ends the run as well.
Gate ==
    /\ pc = "idle"
    /\ LET r == tables_present(Layer)
           missing == REQUIRED_TABLES \ r.ret
       IN /\ call' = Call("tables_present", TablesQ, NoParams, r.raised)
          /\ ret' = r.ret
          /\ IF r.raised
             THEN /\ Commit(r.L)
                  /\ pc' = "idle"
             ELSE IF missing # {}
             THEN /\ Commit([r.L EXCEPT !.msgs = Append(@, "Some required tables are missing")])
                  /\ pc' = "idle"
             ELSE /\ Commit(r.L)
                  /\ pc' = "sidebar"
          /\ warned' = IF ~r.raised THEN missing ELSE {}
    /\ section' = ""
    /\ sidebar' = NoSidebar
    /\ choice' = <<>>
    /\ UNCHANGED <<store, writes, browses>>

\* Lines 60-68: the three filter lookups of the sidebar, in order; the first
\* that raises ends the run.
Sidebar ==
    /\ pc = "sidebar"
    /\ LET r1 == get_distinct_values(Layer, "food_listings", "location")
           r2 == get_distinct_values(r1.L, "providers", "name")
           r3 == get_distinct_values(r2.L, "food_listings", "food_type")
           last == IF r1.raised THEN <<r1, "food_listings", "location">>
                   ELSE IF r2.raised THEN <<r2, "providers", "name">>
                   ELSE <<r3, "food_listings", "food_type">>
           r == last[1]
       IN /\ Commit(r.L)
          /\ call' = Call("get_distinct_values", DistinctQ(last[2], last[3]),
                          NoParams, r.raised)
          /\ ret' = r.ret
          /\ pc' = IF r.raised THEN "idle" ELSE "page"
          /\ sidebar' = IF r.raised THEN NoSidebar
                        ELSE [locations |-> r1.ret, providers_list |-> r2.ret,
                              food_types |-> r3.ret]
    /\ section' = ""
    /\ choice' = <<>>
    /\ warned' = {}
    /\ UNCHANGED <<store, writes, browses>>

\* Variant of BrowseFilter whose provider predicate is appended when a
\* location, not a provider, is selected.
BrowseFilter_provider_on_location(loc_choice, prov_choice, type_choice) ==
    LET w1 == IF loc_choice # All THEN <<Pred("f.location", "loc")>> ELSE <<>>
        p1 == IF loc_choice # All THEN ("loc" :> loc_choice) ELSE <<>>
        w2 == IF loc_choice # All THEN Append(w1, Pred("p.name", "pname")) ELSE w1
        p2 == IF loc_choice # All THEN ("pname" :> prov_choice) @@ p1 ELSE p1
        w3 == IF type_choice # All THEN Append(w2, Pred("f.food_type", "ft")) ELSE w2
        p3 == IF type_choice # All THEN ("ft" :> type_choice) @@ p2 ELSE p2
    IN [where |-> w3, params |-> p3]

\* Lines 93-102: the predicates and parameters of the browse statement.
BrowseFilter(loc_choice, prov_choice, type_choice) ==
    LET w1 == IF loc_choice # All THEN <<Pred("f.location", "loc")>> ELSE <<>>
        p1 == IF loc_choice # All THEN ("loc" :> loc_choice) ELSE <<>>
        w2 == IF prov_choice # All THEN Append(w1, Pred("p.name", "pname")) ELSE w1
        p2 == IF prov_choice # All THEN ("pname" :> prov_choice) @@ p1 ELSE p1
        w3 == IF type_choice # All THEN Append(w2, Pred("f.food_type", "ft")) ELSE w2
        p3 == IF type_choice # All THEN ("ft" :> type_choice) @@ p2 ELSE p2
    IN [where |-> w3, params |-> p3]

\* Lines 84-108: the Browse & Filter page.
Browse ==
    /\ pc = "page"
    /\ browses < MaxBrowses
    /\ browses' = browses + 1
    /\ \E loc_choice \in {All} \cup Range(sidebar.locations),
          prov_choice \in {All} \cup Range(sidebar.providers_list),
          type_choice \in {All} \cup Range(sidebar.food_types) :
          LET f == BrowseFilter(loc_choice, prov_choice, type_choice)
              r == fetch_df(Layer, BrowseQ(f.where), f.params)
          IN /\ Commit(r.L)
             /\ call' = Call("fetch_df", BrowseQ(f.where), f.params, FALSE)
             /\ ret' = r.ret
             /\ choice' = <<loc_choice, prov_choice, type_choice>>
    /\ pc' = "idle"
    /\ section' = ""
    /\ sidebar' = NoSidebar
    /\ warned' = {}
    /\ UNCHANGED <<store, writes>>

\* Lines 119-126 and 130-145: one tab of the Contact Directory page: the city
\* lookup, then the directory statement with the chosen city.
ContactTab(table) ==
    LET g == get_distinct_values(Layer, table, "city")
    IN IF g.raised
       THEN /\ Commit(g.L)
            /\ call' = Call("get_distinct_values", DistinctQ(table, "city"),
                            NoParams, TRUE)
            /\ ret' = g.ret
            /\ pc' = "idle"
       ELSE \E city_filter \in {All} \cup Range(g.ret) :
            LET where == IF city_filter # All THEN <<Pred("city", "city")>> ELSE <<>>
                params == IF city_filter # All THEN ("city" :> city_filter) ELSE <<>>
                r == fetch_df(g.L, ContactQ(table, where), params)
            IN /\ Commit(r.L)
               /\ call' = Call("fetch_df", ContactQ(table, where), params, FALSE)
               /\ ret' = r.ret
               /\ pc' = IF table = "providers" THEN "contact_receivers" ELSE "idle"

ContactProviders ==
    /\ pc = "page"
    /\ ContactTab("providers")
    /\ section' = ""
    /\ sidebar' = NoSidebar
    /\ choice' = <<>>
    /\ warned' = {}
    /\ UNCHANGED <<store, writes, browses>>

ContactReceivers ==
    /\ pc = "contact_receivers"
    /\ ContactTab("receivers")
    /\ section' = ""
    /\ sidebar' = NoSidebar
    /\ choice' = <<>>
    /\ warned' = {}
    /\ UNCHANGED <<store, writes, browses>>

\* Lines 152-155: the CRUD page's table choice and its preview.
CrudPreview ==
    /\ pc = "page"
    /\ \E sec \in REQUIRED_TABLES :
          LET r == fetch_df(Layer, PreviewQ(sec), NoParams)
          IN /\ Commit(r.L)
             /\ call' = Call("fetch_df", PreviewQ(sec), NoParams, FALSE)
             /\ ret' = r.ret
             /\ section' = sec
    /\ pc' = "crud"
    /\ sidebar' = NoSidebar
    /\ choice' = <<>>
    /\ warned' = {}
    /\ UNCHANGED <<store, writes, browses>>

\* The values an Add form binds, for the columns the model keeps.
FormInputs(t) ==
    CASE t = "providers" -> {[name |-> n, city |-> c] : n \in TextInputs, c \in TextInputs}
      [] t = "receivers" -> {[city |-> c] : c \in TextInputs}
      [] t = "food_listings" ->
           {[provider_id |-> i, food_type |-> ft, location |-> loc] :
              i \in Ids, ft \in TextInputs, loc \in TextInputs}
      [] t = "claims" -> {[food_id |-> i] : i \in Ids}

\* A button of the CRUD page ran run_write(query, params).
Written(query, params) ==
    LET w == run_write(Layer, query, params)
    IN /\ Commit(w.L)
       /\ rows' = [rows EXCEPT ![query.table] = w.rows]
       /\ writes' = IF w.ok THEN writes + 1 ELSE writes
       /\ call' = Call("run_write", query, params, FALSE)
       /\ ret' = w.ok

EndCrud ==
    /\ pc' = "idle"
    /\ section' = ""
    /\ sidebar' = NoSidebar
    /\ choice' = <<>>
    /\ warned' = {}
    /\ UNCHANGED <<tables, receiversCol, up, browses>>

\* Lines 161-201: the Add form of the selected table is submitted.
CrudAdd ==
    /\ pc = "crud"
    /\ writes < MaxWrites
    /\ NextId(section) <= MaxId
    /\ \E params \in FormInputs(section) : Written(InsertQ(section), params)
    /\ EndCrud

\* Lines 204-213: the Update button; an empty column name writes nothing.
CrudUpdate ==
    /\ pc = "crud"
    /\ writes < MaxWrites
    /\ \E rec_id \in Ids, col_to_update \in ColumnInputs, new_val \in TextInputs :
          IF col_to_update # ""
          THEN Written(UpdateQ(section, col_to_update),
                       [val |-> new_val, id |-> rec_id])
          ELSE /\ Commit(Layer)
               /\ call' = NoCall
               /\ ret' = FALSE
               /\ UNCHANGED <<rows, writes>>
    /\ EndCrud

\* Lines 216-221: the Delete button.
CrudDelete ==
    /\ pc = "crud"
    /\ writes < MaxWrites
    /\ \E del_id \in Ids : Written(DeleteQ(section), [id |-> del_id])
    /\ EndCrud

\* The CRUD page is rendered and no button is pressed.
CrudDone ==
    /\ pc = "crud"
    /\ Commit(Layer)
    /\ call' = NoCall
    /\ ret' = FALSE
    /\ UNCHANGED <<rows, writes>>
    /\ EndCrud

\* Lines 226-257: the Reports page; report Q4 first looks the cities up and
\* binds the selected one (None when there is none to select).
Reports ==
    /\ pc = "page"
    /\ \E name \in ReportChoices :
          IF name = "Q4"
          THEN LET g == get_distinct_values(Layer, "providers", "city")
               IN IF g.raised
                  THEN /\ Commit(g.L)
                       /\ call' = Call("get_distinct_values",
                                       DistinctQ("providers", "city"), NoParams, TRUE)
                       /\ ret' = g.ret
                  ELSE \E city_param \in (IF g.ret = <<>> THEN {NULL} ELSE Range(g.ret)) :
                       LET params == ("city_name" :> city_param)
                           r == fetch_df(g.L, ReportQ(name), params)
                       IN /\ Commit(r.L)
                          /\ call' = Call("fetch_df", ReportQ(name), params, FALSE)
                          /\ ret' = r.ret
          ELSE LET r == fetch_df(Layer, ReportQ(name), NoParams)
               IN /\ Commit(r.L)
                  /\ call' = Call("fetch_df", ReportQ(name), NoParams, FALSE)
                  /\ ret' = r.ret
    /\ pc' = "idle"
    /\ section' = ""
    /\ sidebar' = NoSidebar
    /\ choice' = <<>>
    /\ warned' = {}
    /\ UNCHANGED <<store, writes, browses>>

\* ------------------------------------------------------------- environment
\* d seconds pass between two script runs.
Tick(d) ==
    /\ pc = "idle"
    /\ fetchCache' = Expire(fetchCache, d)
    /\ gdvCache' = Expire(gdvCache, d)
    /\ tpCache' = Expire(tpCache, d)
    /\ call' = NoCall
    /\ ret' = FALSE
    /\ sent' = <<>>
    /\ msgs' = <<>>
    /\ warned' = {}
    /\ UNCHANGED <<store, pc, section, sidebar, choice, writes, browses>>

\* Between two script runs the store stops or starts answering statements.
StoreFlips ==
    /\ pc = "idle"
    /\ up' = ~up
    /\ call' = NoCall
    /\ ret' = FALSE
    /\ sent' = <<>>
    /\ msgs' = <<>>
    /\ warned' = {}
    /\ UNCHANGED <<tables, receiversCol, rows, caches, pc, section, sidebar,
                   choice, writes, browses>>

\* ------------------------------------------------------------ specification
NoRows == [t \in REQUIRED_TABLES |-> {}]

\* A store with one row in each table.
SeedRows ==
    [providers |-> {[provider_id |-> 1, name |-> <<"a">>, city |-> <<"a">>]},
     receivers |-> {[receiver_id |-> 1, city |-> <<" ", "A">>]},
     food_listings |-> {[food_id |-> 1, provider_id |-> 1, location |-> <<"a">>,
                         food_type |-> <<"a">>]},
     claims |-> {[claim_id |-> 1, food_id |-> 1]}]

\* The program after construction: empty caches, no run started.
InitProgram ==
    /\ fetchCache = <<>>
    /\ gdvCache = <<>>
    /\ tpCache = <<>>
    /\ pc = "idle"
    /\ section = ""
    /\ sidebar = NoSidebar
    /\ choice = <<>>
    /\ call = NoCall
    /\ ret = FALSE
    /\ sent = <<>>
    /\ msgs = <<>>
    /\ warned = {}
    /\ writes = 0
    /\ browses = 0

\* The store the program is started on: any subset of the required tables,
\* either receivers schema, answering or not.
Init ==
    /\ tables \in SUBSET REQUIRED_TABLES
    /\ receiversCol \in {"type", "category"}
    /\ rows = SeedRows
    /\ up \in BOOLEAN
    /\ InitProgram

\* A session on the CRUD page: the schema gate, the sidebar, the preview and
\* the three write buttons; a full TTL passes between runs.
Next ==
    \/ Gate
    \/ Sidebar
    \/ CrudPreview
    \/ CrudAdd
    \/ CrudUpdate
    \/ CrudDelete
    \/ CrudDone
    \/ Tick(TTL)
    \/ StoreFlips

Spec == Init /\ [][Next]_vars

\* A session on the Contact Directory page and the Add forms of the CRUD page,
\* on a store that keeps answering or keeps failing.
NextDirectory ==
    \/ Gate
    \/ Sidebar
    \/ ContactProviders
    \/ ContactReceivers
    \/ CrudPreview
    \/ CrudAdd
    \/ CrudDone
    \/ Tick(TTL)

SpecDirectory == Init /\ [][NextDirectory]_vars

\* Stores for the read-only pages: listings whose locations and food types
\* differ in case and padding, one of them of a provider that does not exist.
ProviderRows ==
    {[provider_id |-> 1, name |-> <<"a">>, city |-> <<"a">>],
     [provider_id |-> 2, name |-> <<"A", " ">>, city |-> <<"b">>]}

ListingRows ==
    {[food_id |-> 1, provider_id |-> 1, location |-> <<"a">>, food_type |-> <<"b">>],
     [food_id |-> 2, provider_id |-> 2, location |-> <<" ", "A">>, food_type |-> <<"B">>],
     [food_id |-> 3, provider_id |-> 3, location |-> <<"b">>, food_type |-> <<"b">>]}

\* The read-only pages do not depend on the receivers schema.
InitRead ==
    /\ tables \in SUBSET REQUIRED_TABLES
    /\ receiversCol = "type"
    /\ \E ps \in SUBSET ProviderRows, ls \in SUBSET ListingRows :
          rows = [SeedRows EXCEPT !["providers"] = ps, !["food_listings"] = ls]
    /\ up \in BOOLEAN
    /\ InitProgram

\* A session on the Browse & Filter page; a full TTL passes between runs.
NextBrowse ==
    \/ Gate
    \/ Sidebar
    \/ Browse
    \/ Tick(TTL)
    \/ StoreFlips

SpecBrowse == InitRead /\ [][NextBrowse]_vars

\* A session on the Reports page, with half a TTL passing between runs.
NextReports ==
    \/ Gate
    \/ Sidebar
    \/ Reports
    \/ Tick(TTL \div 2)
    \/ StoreFlips

SpecReports == InitRead /\ [][NextReports]_vars

\* ------------------------------------------------------------------ claims
Shown(m) == m \in Range(msgs)

\* The last call was a fetch_df whose statement the store executed, now or
\* when its entry was memoized.
FetchedOk ==
    /\ call.fn = "fetch_df"
    /\ ~fetchCache[<<call.query, call.params>>].err

\* The sorted distinct non-null values of a column, from the rows themselves.
DistinctNow(table, column) ==
    OrderBy({r[column] : r \in {x \in rows[table] : x[column] # NULL}})

\* C1: read-after-write freshness.  Every successful result that fetch_df
\* holds or has just returned is the statement's result on the store as it
\* is now, and every list that get_distinct_values holds or has just returned
\* is the column's distinct values as they are now, whatever was written.
C1_ReadAfterWrite ==
    /\ \A key \in DOMAIN fetchCache :
          ~fetchCache[key].err => fetchCache[key].val = read_sql_query(key[1], key[2])
    /\ \A key \in DOMAIN gdvCache :
          gdvCache[key].val = DistinctNow(key[1], key[2])
    /\ FetchedOk => ret = read_sql_query(call.query, call.params)
    /\ (call.fn = "get_distinct_values" /\ ~call.raised) =>
          ret = DistinctNow(call.query.table, call.query.column)

\* A preview read after a successful write returns the changed rows.
C1_Witness ==
    /\ writes > 0
    /\ FetchedOk
    /\ call.query.kind = "preview"
    /\ rows[call.query.table] # SeedRows[call.query.table]
    /\ ret.rows = rows[call.query.table]

\* C2: a failed write leaves everything unchanged.  When the store cannot
\* execute the statement of run_write, the rows are those before the call,
\* the write error is shown, the success message is not, and neither the
\* fetch_df nor the get_distinct_values cache changes.
C2_FailedWrite ==
    [][(call'.fn = "run_write" /\ ~CanWrite(call'.query)) =>
          /\ rows' = rows
          /\ "Write error" \in Range(msgs')
          /\ "Operation successful." \notin Range(msgs')
          /\ fetchCache' = fetchCache
          /\ gdvCache' = gdvCache]_vars

\* A write failed while both caches held entries.
C2_Witness ==
    /\ call.fn = "run_write"
    /\ ret = FALSE
    /\ Shown("Write error")
    /\ fetchCache # <<>>
    /\ gdvCache # <<>>

\* C3: no read failure escapes the data layer.  None of fetch_df,
\* get_distinct_values and tables_present raises.
C3_NoReadRaises ==
    call.fn \in {"fetch_df", "get_distinct_values", "tables_present"} => ~call.raised

\* The fixed allow-list: the columns of each table under either receivers
\* schema.
KnownColumns(t) ==
    IF t = "receivers"
    THEN {"receiver_id", "name", "type", "category", "address", "city", "contact"}
    ELSE Columns(t)

\* C4: identifier allow-listing.  Every statement handed to the engine names
\* only known tables and known columns of them.
C4_AllowList ==
    \A i \in DOMAIN sent :
        IF "set" \in DOMAIN sent[i]
        THEN /\ sent[i].table \in REQUIRED_TABLES
             /\ sent[i].columns \subseteq KnownColumns(sent[i].table)
        ELSE \A tc \in SelectList(sent[i]) :
                /\ tc[1] \in REQUIRED_TABLES
                /\ tc[2] \in KnownColumns(tc[1])

\* The three selections of the sidebar with the predicate each stands for.
Selections ==
    <<[col |-> "f.location", param |-> "loc", val |-> choice[1]],
      [col |-> "p.name", param |-> "pname", val |-> choice[2]],
      [col |-> "f.food_type", param |-> "ft", val |-> choice[3]]>>

NotAll(sel) == sel.val # All

Norm(x) == SqlLower(SqlTrim(x))

\* C5: browse filter construction.  The browse statement has one predicate
\* per selection that is not "All", in order, its parameters are exactly
\* those predicates' keys bound to the selected values, and the listings
\* returned are exactly the joined listings that match every such selection
\* case-insensitively after trimming.
C5_BrowseFilter ==
    (call.fn = "fetch_df" /\ call.query.kind = "browse") =>
       LET active == SelectSeq(Selections, NotAll)
       IN /\ call.query.where =
                [i \in 1..Len(active) |-> Pred(active[i].col, active[i].param)]
          /\ DOMAIN call.params = {active[i].param : i \in 1..Len(active)}
          /\ \A i \in 1..Len(active) : call.params[active[i].param] = active[i].val
          /\ FetchedOk =>
                ret.rows = {r \in JoinedListings : \A i \in 1..Len(active) :
                              /\ ColumnValue(r, active[i].col) # NULL
                              /\ Norm(ColumnValue(r, active[i].col)) = Norm(active[i].val)}

\* A browse with a location and a food type selected returned a listing
\* whose stored location is not the selected text.
C5_Witness ==
    /\ call.fn = "fetch_df"
    /\ call.query.kind = "browse"
    /\ choice[1] # All
    /\ choice[2] = All
    /\ choice[3] # All
    /\ \E r \in ret.rows : r.location # choice[1]

\* C6: the schema gate.  A run on a store that lacks a required table shows
\* the warning naming exactly the missing tables and stops; a run on a store
\* with all four goes on to the sidebar.
C6_SchemaGate ==
    call.fn = "tables_present" =>
       IF REQUIRED_TABLES \ tables # {}
       THEN /\ Shown("Some required tables are missing")
            /\ warned = REQUIRED_TABLES \ tables
            /\ pc = "idle"
       ELSE pc = "sidebar"

\* C7: idempotent memoization.  A fetch_df call whose (statement, parameters)
\* entry is held and younger than the TTL returns the held result and hands
\* no statement to the engine; any other fetch_df call executes the
\* statement.
C7_Memoization ==
    [][call'.fn = "fetch_df" =>
          LET key == <<call'.query, call'.params>>
          IN IF key \in DOMAIN fetchCache /\ fetchCache[key].age < TTL
             THEN /\ ret' = fetchCache[key].val
                  /\ call'.query \notin Range(sent')
             ELSE call'.query \in Range(sent')]_vars

\* Report Q4 was served from an entry half a TTL old.
C7_Witness ==
    /\ call.fn = "fetch_df"
    /\ call.query = ReportQ("Q4")
    /\ call.query \notin Range(sent)
    /\ fetchCache[<<call.query, call.params>>].age = TTL \div 2
    /\ ret.rows # {}

\* C8: whole-cache invalidation.  Right after a successful run_write the
\* caches of fetch_df, get_distinct_values and tables_present are all empty.
C8_WholeCache ==
    (call.fn = "run_write" /\ ret = TRUE) =>
       /\ fetchCache = <<>>
       /\ gdvCache = <<>>
       /\ tpCache = <<>>

\* C9 as claimed: no cache holds the result of a statement that failed.
C9_FailedReadNotMemoized ==
    \A key \in DOMAIN fetchCache : ~fetchCache[key].err

\* C9 as amended: fetch_df memoizes the empty result of a failed statement,
\* and an identical call served from that entry returns the empty DataFrame
\* without executing the statement, whether or not the store answers by then; get_distinct_values and tables_present
\* memoize only what they derive from a statement that executed successfully.
C9_FailureMemoizedByFetchOnly ==
    [][/\ call'.fn = "fetch_df" =>
             LET key == <<call'.query, call'.params>>
             IN /\ (key \notin DOMAIN fetchCache /\ ~CanRead(call'.query)) =>
                      /\ key \in DOMAIN fetchCache'
                      /\ fetchCache'[key].err
                      /\ fetchCache'[key].val = EmptyDataFrame
                /\ (key \in DOMAIN fetchCache /\ fetchCache[key].err) =>
                      /\ ret' = EmptyDataFrame
                      /\ call'.query \notin Range(sent')
       /\ \A key \in DOMAIN gdvCache' \ DOMAIN gdvCache :
             LET inner == <<DistinctQ(key[1], key[2]), NoParams>>
             IN inner \in DOMAIN fetchCache' /\ ~fetchCache'[inner].err
       /\ \A key \in DOMAIN tpCache' \ DOMAIN tpCache :
             LET inner == <<TablesQ, NoParams>>
             IN inner \in DOMAIN fetchCache' /\ ~fetchCache'[inner].err]_vars

\* A preview was served from a memoized failure although the store answers
\* and the table has rows.
C9_Witness ==
    /\ call.fn = "fetch_df"
    /\ call.query \notin Range(sent)
    /\ fetchCache[<<call.query, call.params>>].err
    /\ up
    /\ ret = EmptyDataFrame
    /\ rows[call.query.table] # {}

\* C10: receiver creation is consistent with receiver reads.  When the store
\* answers and the directory's receivers read has succeeded, the Add Receiver
\* insert succeeds and adds exactly one row.
C10_ReceiverCreation ==
    [][(/\ call'.fn = "run_write"
        /\ call'.query = InsertQ("receivers")
        /\ up
        /\ \E key \in DOMAIN fetchCache :
              /\ key[1].kind = "contact"
              /\ key[1].table = "receivers"
              /\ ~fetchCache[key].err) =>
          /\ ret' = TRUE
          /\ Cardinality(rows'["receivers"]) = Cardinality(rows["receivers"]) + 1]_vars
====
